---- MODULE Spec2Model ----
(***************************************************************************)
(* A model of the stowage viewer: the helpers of main_stowage_viewer.py    *)
(* (row_to_y, calculate_dimensions, create_container_traces) and the two   *)
(* entry points that assemble a scene from a data frame (main, and the     *)
(* Streamlit page app.py).                                                 *)
(*                                                                         *)
(* Python values are records [k, v, s]: k is the Python type, v the        *)
(* number (an int, or a float counted in halves), s the text of a str as   *)
(* a sequence of one-character strings.  Coordinates of a scene are        *)
(* floats whose value is whole ((bay - 2) / 2 for an even bay, 1.0, 2.0);  *)
(* they are kept as integers.                                              *)
(***************************************************************************)
EXTENDS Integers, Sequences, FiniteSets, TLC

\* ---------------------------------------------------------------- bounds
MaxAbsRow == 6      \* SpecRow: row codes -MaxAbsRow .. MaxAbsRow
MaxPlanBay == 7     \* SpecDims: bays 1 .. MaxPlanBay
MaxBoxCoord == 1    \* SpecBox: a box is anchored at x, z in 0 .. MaxBoxCoord, y in -MaxBoxCoord .. MaxBoxCoord
MaxBoxSize == 2     \* SpecBox: length, width, height in 1 .. MaxBoxSize
MaxRecords == 2     \* Spec, SpecMain: a data frame of at most MaxRecords rows
MaxBay == 2         \* Spec, SpecMain: bays 1 .. MaxBay
MaxRow == 1         \* Spec, SpecMain: row codes 0 .. MaxRow

\* ------------------------------------------------------ program constants
Width == 1          \* width=1.0 in the calls of create_container_traces
Height == 1         \* height=1.0
DeckTier == 82      \* the tier of the sample row of the page's placeholder

\* ---------------------------------------------------------- Python values
None == [k |-> "None", v |-> 0, s |-> <<>>]
PyInt(n) == [k |-> "int", v |-> n, s |-> <<>>]
\* a float, h halves: PyFloat(3) is 1.5
PyFloat(h) == [k |-> "float", v |-> h, s |-> <<>>]
PyStr(chars) == [k |-> "str", v |-> 0, s |-> chars]

DigitChars == <<"0", "1", "2", "3", "4", "5", "6", "7", "8", "9">>

DigitOf(c) == CHOOSE d \in 0..9 : DigitChars[d + 1] = c

IsDigit(c) == \E d \in 0..9 : DigitChars[d + 1] = c

RECURSIVE NatText(_)
\* the decimal text of a natural number
NatText(n) == IF n < 10 THEN <<DigitChars[n + 1]>>
              ELSE NatText(n \div 10) \o <<DigitChars[(n % 10) + 1]>>

\* str(n) of an int
IntText(n) == IF n < 0 THEN <<"-">> \o NatText(-n) ELSE NatText(n)

RECURSIVE DigitsValue(_)
DigitsValue(chars) ==
    IF chars = <<>> THEN 0
    ELSE 10 * DigitsValue(SubSeq(chars, 1, Len(chars) - 1)) + DigitOf(chars[Len(chars)])

\* the text is an optional sign and at least one digit: int(text) succeeds
IsIntText(chars) ==
    LET body == IF chars # <<>> /\ chars[1] \in {"-", "+"} THEN Tail(chars) ELSE chars
    IN  body # <<>> /\ \A i \in 1..Len(body) : IsDigit(body[i])

ParseInt(chars) ==
    IF chars[1] = "-" THEN -DigitsValue(Tail(chars))
    ELSE IF chars[1] = "+" THEN DigitsValue(Tail(chars))
    ELSE DigitsValue(chars)

\* int(x) raises ValueError (a str that is no number) or TypeError (None)
IntRaises(x) == \/ x.k = "None"
                \/ x.k = "str" /\ ~IsIntText(x.s)

\* int(x) where it does not raise; a float is truncated towards zero
IntOf(x) == CASE x.k = "int" -> x.v
              [] x.k = "float" -> IF x.v >= 0 THEN x.v \div 2 ELSE -((-x.v) \div 2)
              [] x.k = "str" -> ParseInt(x.s)

\* ---------------------------------------------------------------- helpers
\* the sign of line 19 with the two branches exchanged
row_to_y_flipped(row) ==
    IF IntRaises(row) THEN None
    ELSE LET r == IntOf(row)
             steps == (r + 1) \div 2
             sign == IF r % 2 = 1 THEN -1 ELSE 1
         IN  IF r = 0 THEN PyInt(0) ELSE PyInt(sign * steps)

\* row_to_y: // is floor division and % is non-negative for a positive
\* divisor, in Python as in TLA+
row_to_y(row) ==
    IF IntRaises(row) THEN None
    ELSE LET r == IntOf(row)
             steps == (r + 1) \div 2
             sign == IF r % 2 = 1 THEN 1 ELSE -1
         IN  IF r = 0 THEN PyInt(0) ELSE PyInt(sign * steps)

\* an odd bay given the length of an even one
calculate_dimensions_long(bay) ==
    IF bay % 2 = 0 THEN <<(bay - 2) \div 2, 2>>
    ELSE <<(bay - 1) \div 2, 2>>

\* calculate_dimensions: <<x_start, length>>.  The numerator of x_start is
\* even in both branches, so the true division / yields a whole float.
calculate_dimensions(bay) ==
    IF bay % 2 = 0 THEN <<(bay - 2) \div 2, 2>>
    ELSE <<(bay - 1) \div 2, 1>>

\* a coordinate: an int or a float of whole value
Num(c) == [k |-> "number", v |-> c, s |-> <<>>]

\* vertices: the corner lists of lines 36-40; Python's index i is i + 1 here
Vertices(x, y, z, length, width, height) ==
    [x |-> <<x, x + length, x + length, x, x, x + length, x + length, x>>,
     y |-> <<y, y, y + width, y + width, y, y, y + width, y + width>>,
     z |-> <<z, z, z, z, z + height, z + height, z + height, z + height>>]

\* the index lists of the solid mesh, lines 44-46
face_i == <<0, 0, 4, 4, 0, 0, 1, 1, 2, 2, 3, 3>>
face_j == <<1, 3, 5, 7, 4, 7, 2, 6, 3, 7, 4, 5>>
face_k == <<2, 2, 6, 6, 7, 3, 6, 5, 7, 6, 5, 1>>

\* the path with the break between the first two vertical edges left out
path_indices_joined ==
    <<PyInt(0), PyInt(1), PyInt(2), PyInt(3), PyInt(0), None,
      PyInt(4), PyInt(5), PyInt(6), PyInt(7), PyInt(4), None,
      PyInt(0), PyInt(4), PyInt(1), PyInt(5), None,
      PyInt(2), PyInt(6), None, PyInt(3), PyInt(7)>>

\* path_indices, line 59
path_indices ==
    <<PyInt(0), PyInt(1), PyInt(2), PyInt(3), PyInt(0), None,
      PyInt(4), PyInt(5), PyInt(6), PyInt(7), PyInt(4), None,
      PyInt(0), PyInt(4), None, PyInt(1), PyInt(5), None,
      PyInt(2), PyInt(6), None, PyInt(3), PyInt(7)>>

\* the loop of lines 60-69 for one coordinate list
EdgeCoords(coords) ==
    [p \in 1..Len(path_indices) |->
        IF path_indices[p] = None THEN None
        ELSE Num(coords[path_indices[p].v + 1])]

\* create_container_traces with a y that is a number: [face_mesh,
\* edge_wireframe].  Lighting values are in tenths.
create_container_traces(x, y, z, length, width, height, color, hovertext) ==
    LET vertices == Vertices(x, y, z, length, width, height)
        face_mesh == [type |-> "mesh3d",
                      x |-> vertices.x, y |-> vertices.y, z |-> vertices.z,
                      i |-> face_i, j |-> face_j, k |-> face_k,
                      color |-> color, opacity |-> 1, hoverinfo |-> "text",
                      text |-> hovertext, flatshading |-> TRUE,
                      lighting |-> [ambient |-> 8, diffuse |-> 2, specular |-> 0]]
        edge_wireframe == [type |-> "scatter3d",
                           x |-> EdgeCoords(vertices.x),
                           y |-> EdgeCoords(vertices.y),
                           z |-> EdgeCoords(vertices.z),
                           mode |-> "lines",
                           line |-> [color |-> "black", width |-> 2],
                           hoverinfo |-> "none"]
    IN  <<face_mesh, edge_wireframe>>

\* y + width of line 38 raises TypeError when y is None
CreateRaises(y) == y = None

\* ------------------------------------------------------------------ state
VARIABLES
    row_arg,    \* SpecRow: the argument of a call of row_to_y
    row_ret,    \* SpecRow: what the call returned, Pending before it returns
    planned,    \* SpecDims: the results of calculate_dimensions so far,
                \*   a set of [bay, x_start, length]
    box_args,   \* SpecBox: the arguments of a call of create_container_traces
    box_ret,    \* SpecBox: the list it returned, empty before it returns
    entry,      \* the entry point that runs: "main" or "app" ("none": neither)
    df,         \* the data frame after dropna, a sequence of rows
    pc,         \* where the entry point is: "loop", "layout", "done",
                \*   "crash" (main ended by an uncaught exception),
                \*   "error" (app's outer except reported one)
    consumed,   \* the number of rows df.iterrows() has yielded and the loop has dealt with
    fig,        \* fig.data, the traces added so far
    skipped,    \* main's warnings: the rows skipped, [id, why]
    ticks,      \* the six tick lists
    shown       \* what the rendering boundary received: "nothing", "html"
                \*   (pyo.plot), "chart" (st.plotly_chart), "error" (st.error)

rowVars == <<row_arg, row_ret>>
boxVars == <<box_args, box_ret>>
sceneVars == <<entry, df, pc, consumed, fig, skipped, ticks, shown>>
vars == <<row_arg, row_ret, planned, box_args, box_ret,
          entry, df, pc, consumed, fig, skipped, ticks, shown>>

Pending == [k |-> "pending", v |-> 0, s |-> <<>>]

NoBox == [x |-> 0, y |-> 0, z |-> 0, length |-> 0, width |-> 0, height |-> 0]

NoTicks == [bay_tickvals |-> <<>>, bay_ticktext |-> <<>>,
            tier_tickvals |-> <<>>, tier_ticktext |-> <<>>,
            row_tickvals |-> <<>>, row_ticktext |-> <<>>]

\* the variables of the specifications that are not running
RowIdle == row_arg = None /\ row_ret = Pending
DimsIdle == planned = {}
BoxIdle == box_args = NoBox /\ box_ret = <<>>
SceneIdle == /\ entry = "none" /\ df = <<>> /\ pc = "idle" /\ consumed = 0 /\ fig = <<>>
             /\ skipped = <<>> /\ ticks = NoTicks /\ shown = "nothing"

\* ------------------------------------------------------- SpecRow: row_to_y
RowCodes == (-MaxAbsRow)..MaxAbsRow

\* the values a Row cell can hold: an int, a float (whole or half), the
\* text of an int, a text that is no number
RowArgs == {PyInt(r) : r \in RowCodes}
           \cup {PyFloat(h) : h \in (-2 * MaxAbsRow)..(2 * MaxAbsRow)}
           \cup {PyStr(IntText(r)) : r \in RowCodes}
           \cup {PyStr(<<"0">> \o IntText(r)) : r \in 0..MaxAbsRow}
           \cup {PyStr(<<"x">>), PyStr(<<>>), None}

InitRow == /\ row_arg \in RowArgs
           /\ row_ret = Pending
           /\ DimsIdle /\ BoxIdle /\ SceneIdle

RowToY == /\ row_ret = Pending
          /\ row_ret' = row_to_y(row_arg)
          /\ UNCHANGED <<row_arg, planned, boxVars, sceneVars>>

NextRow == RowToY

SpecRow == InitRow /\ [][NextRow]_vars

\* ------------------------------------------- SpecDims: calculate_dimensions
PlanBays == 1..MaxPlanBay

InitDims == /\ planned = {}
            /\ RowIdle /\ BoxIdle /\ SceneIdle

CalculateDimensions(bay) ==
    /\ \A p \in planned : p.bay # bay
    /\ LET d == calculate_dimensions(bay)
       IN  planned' = planned \cup {[bay |-> bay, x_start |-> d[1], length |-> d[2]]}
    /\ UNCHANGED <<rowVars, boxVars, sceneVars>>

NextDims == \E bay \in PlanBays : CalculateDimensions(bay)

SpecDims == InitDims /\ [][NextDims]_vars

\* ------------------------------------------ SpecBox: create_container_traces
BoxArgs == [x : 0..MaxBoxCoord, y : (-MaxBoxCoord)..MaxBoxCoord, z : 0..MaxBoxCoord,
            length : 1..MaxBoxSize, width : 1..MaxBoxSize, height : 1..MaxBoxSize]

InitBox == /\ box_args \in BoxArgs
           /\ box_ret = <<>>
           /\ RowIdle /\ DimsIdle /\ SceneIdle

CreateContainerTraces ==
    /\ box_ret = <<>>
    /\ box_ret' = create_container_traces(box_args.x, box_args.y, box_args.z,
                                          box_args.length, box_args.width,
                                          box_args.height, "red", "hover")
    /\ UNCHANGED <<rowVars, planned, box_args, sceneVars>>

NextBox == CreateContainerTraces

SpecBox == InitBox /\ [][NextBox]_vars

\* ------------------------------------------------------ the data frame
\* a text that is no number
NotANumber == PyStr(<<"x">>)

Bays == 1..MaxBay
Rows == 0..MaxRow
Tiers == {DeckTier}

\* a row of the CSV file, by what its three cells say
CsvRows == [Bay : {PyInt(b) : b \in Bays} \cup {NotANumber},
            Row : {PyInt(r) : r \in Rows} \cup {NotANumber},
            Tier : {PyInt(t) : t \in Tiers} \cup {NotANumber}]

CsvFiles == UNION {[1..len -> CsvRows] : len \in 0..MaxRecords}

\* read_csv types a column as a whole: every cell of a column that holds a
\* text that is no number is a str; a numeric Bay column is float64 rather
\* than int64 when the file held a row with no Bay (which dropna removed)
ColumnCell(cell, has_text, as_float) ==
    IF has_text THEN (IF cell.k = "int" THEN PyStr(IntText(cell.v)) ELSE cell)
    ELSE IF as_float THEN PyFloat(2 * cell.v)
    ELSE cell

\* the frame after read_csv and dropna; the container of row p has id p
Frame(csv, bay_float) ==
    [p \in 1..Len(csv) |->
        [Bay |-> ColumnCell(csv[p].Bay, \E q \in 1..Len(csv) : csv[q].Bay.k = "str", bay_float),
         Row |-> ColumnCell(csv[p].Row, \E q \in 1..Len(csv) : csv[q].Row.k = "str", FALSE),
         Tier |-> ColumnCell(csv[p].Tier, \E q \in 1..Len(csv) : csv[q].Tier.k = "str", FALSE),
         Container_ID |-> p,
         Container_Location |-> "location",
         Declared_Cargo |-> "cargo",
         Colour |-> "red"]]

Frames == {Frame(csv, bay_float) : csv \in CsvFiles, bay_float \in BOOLEAN}

\* ------------------------------------------------------ the loop over rows
\* hover_text: the id, the location and the cargo, in this order
HoverText(c) == <<c.Container_ID, c.Container_Location, c.Declared_Cargo>>

\* the body of main's loop for row c, with z = int(c["Tier"]) instead of
\* int(c["Tier"]) - 1
main_row_no_offset(c) ==
    IF IntRaises(c.Bay) \/ IntRaises(c.Tier)
    THEN [status |-> "data error", traces |-> <<>>]
    ELSE LET bay == IntOf(c.Bay)
             y == row_to_y(c.Row)
             z == IntOf(c.Tier)
             d == calculate_dimensions(bay)
         IN  IF y = None
             THEN [status |-> "invalid row", traces |-> <<>>]
             ELSE [status |-> "ok",
                   traces |-> create_container_traces(d[1], y.v, z, d[2], Width, Height,
                                                      c.Colour, HoverText(c))]

\* the body of main's loop for row c, with the solid mesh of a row whose
\* Row is not mappable handed on before the test of y
main_row_early_mesh(c) ==
    IF IntRaises(c.Bay) \/ IntRaises(c.Tier)
    THEN [status |-> "data error", traces |-> <<>>]
    ELSE LET bay == IntOf(c.Bay)
             y == row_to_y(c.Row)
             z == IntOf(c.Tier) - 1
             d == calculate_dimensions(bay)
         IN  IF y = None
             THEN [status |-> "invalid row",
                   traces |-> <<create_container_traces(d[1], 0, z, d[2], Width, Height,
                                                        c.Colour, HoverText(c))[1]>>]
             ELSE [status |-> "ok",
                   traces |-> create_container_traces(d[1], y.v, z, d[2], Width, Height,
                                                      c.Colour, HoverText(c))]

\* the body of main's loop for row c, lines 99-124: the traces to add, or
\* the reason of the warning.  int(c["Bay"]) and int(c["Tier"]) raise
\* ValueError into the except of line 122; row_to_y does not raise.
main_row(c) ==
    IF IntRaises(c.Bay) \/ IntRaises(c.Tier)
    THEN [status |-> "data error", traces |-> <<>>]
    ELSE LET bay == IntOf(c.Bay)
             y == row_to_y(c.Row)
             z == IntOf(c.Tier) - 1
             d == calculate_dimensions(bay)
         IN  IF y = None
             THEN [status |-> "invalid row", traces |-> <<>>]
             ELSE [status |-> "ok",
                   traces |-> create_container_traces(d[1], y.v, z, d[2], Width, Height,
                                                      c.Colour, HoverText(c))]

\* the body of app's loop for row c, lines 56-72: no try and no test of y,
\* so int() raising, or create_container_traces raising on y = None, leaves
\* the loop for the except of line 103
app_row(c) ==
    IF IntRaises(c.Bay) \/ IntRaises(c.Tier)
    THEN [status |-> "raised", traces |-> <<>>]
    ELSE LET bay == IntOf(c.Bay)
             y == row_to_y(c.Row)
             z == IntOf(c.Tier) - 1
             d == calculate_dimensions(bay)
         IN  IF CreateRaises(y)
             THEN [status |-> "raised", traces |-> <<>>]
             ELSE [status |-> "ok",
                   traces |-> create_container_traces(d[1], y.v, z, d[2], Width, Height,
                                                      c.Colour, HoverText(c))]

\* ---------------------------------------------------------- the axis ticks
BayColumn == [p \in 1..Len(df) |-> df[p].Bay]
RowColumn == [p \in 1..Len(df) |-> df[p].Row]
TierColumn == [p \in 1..Len(df) |-> df[p].Tier]

\* Series.unique()
Unique(column) == {column[p] : p \in 1..Len(column)}

IsText(column) == \E p \in 1..Len(column) : column[p].k = "str"

IsFloat(column) == \E p \in 1..Len(column) : column[p].k = "float"

\* the number in a numeric cell; the floats of a frame are whole
Number(cell) == IF cell.k = "float" THEN cell.v \div 2 ELSE cell.v

CharCode(ch) == CASE ch = "+" -> 43
                  [] ch = "-" -> 45
                  [] ch = "x" -> 120
                  [] OTHER -> 48 + DigitOf(ch)

RECURSIVE TextLess(_, _)
\* a < b of two str: by code point, a proper prefix first
TextLess(a, b) ==
    IF b = <<>> THEN FALSE
    ELSE IF a = <<>> THEN TRUE
    ELSE IF a[1] = b[1] THEN TextLess(Tail(a), Tail(b))
    ELSE CharCode(a[1]) < CharCode(b[1])

\* a < b of two cells of one column
CellLess(a, b) == IF a.k = "str" THEN TextLess(a.s, b.s) ELSE Number(a) < Number(b)

RECURSIVE Sorted(_)
\* sorted(...) of a set of cells of one column
Sorted(cells) ==
    IF cells = {} THEN <<>>
    ELSE LET least == CHOOSE a \in cells : \A b \in cells \ {a} : CellLess(a, b)
         IN  <<least>> \o Sorted(cells \ {least})

\* f"{b:02d}" of an int
Format02d(b) == IF Len(IntText(b)) < 2 THEN <<"0">> \o IntText(b) ELSE IntText(b)

\* str(r) of a cell of an int64 or object column
StrOf(cell) == IF cell.k = "str" THEN cell.s ELSE IntText(cell.v)

\* even_bays: b % 2 of a str is string formatting and raises TypeError
even_bays == Sorted({b \in Unique(BayColumn) : Number(b) % 2 = 0})
bay_tickvals == [p \in 1..Len(even_bays) |-> (Number(even_bays[p]) - 2) \div 2]
unique_tiers == Sorted(Unique(TierColumn))
tier_tickvals == [p \in 1..Len(unique_tiers) |-> Number(unique_tiers[p]) - 1]
tier_ticktext == [p \in 1..Len(unique_tiers) |-> StrOf(unique_tiers[p])]
unique_rows == Sorted(Unique(RowColumn))
row_tickvals == [p \in 1..Len(unique_rows) |-> row_to_y(unique_rows[p])]
row_ticktext == [p \in 1..Len(unique_rows) |-> StrOf(unique_rows[p])]

\* main, line 130: the format code d of a float raises ValueError
main_bay_ticktext == [p \in 1..Len(even_bays) |-> Format02d(even_bays[p].v)]

\* app, line 78: int(b) first
app_bay_ticktext == [p \in 1..Len(even_bays) |-> Format02d(IntOf(even_bays[p]))]

\* lines 128-140 of main raise: b % 2 of a str (128), the format of a float
\* (130), t - 1 of a str (134)
main_ticks_raise == \/ IsText(BayColumn)
                    \/ IsFloat(BayColumn) /\ even_bays # <<>>
                    \/ IsText(TierColumn)

\* lines 75-85 of app raise: b % 2 of a str (75), t - 1 of a str (81)
app_ticks_raise == IsText(BayColumn) \/ IsText(TierColumn)

\* ------------------------------------------------------------------- main
MainRecord ==
    /\ entry = "main" /\ pc = "loop" /\ consumed < Len(df)
    /\ LET c == df[consumed + 1]
           r == main_row(c)
       IN  /\ fig' = fig \o r.traces
           /\ skipped' = IF r.status = "ok" THEN skipped
                         ELSE Append(skipped, [id |-> c.Container_ID, why |-> r.status])
    /\ consumed' = consumed + 1
    /\ UNCHANGED <<rowVars, planned, boxVars, entry, df, pc, ticks, shown>>

MainTicks ==
    /\ entry = "main" /\ pc = "loop" /\ consumed = Len(df)
    /\ IF main_ticks_raise
       THEN pc' = "crash" /\ UNCHANGED ticks
       ELSE /\ pc' = "layout"
            /\ ticks' = [bay_tickvals |-> bay_tickvals, bay_ticktext |-> main_bay_ticktext,
                         tier_tickvals |-> tier_tickvals, tier_ticktext |-> tier_ticktext,
                         row_tickvals |-> row_tickvals, row_ticktext |-> row_ticktext]
    /\ UNCHANGED <<rowVars, planned, boxVars, entry, df, consumed, fig, skipped, shown>>

\* fig.update_layout and pyo.plot
MainPlot ==
    /\ entry = "main" /\ pc = "layout"
    /\ pc' = "done"
    /\ shown' = "html"
    /\ UNCHANGED <<rowVars, planned, boxVars, entry, df, consumed, fig, skipped, ticks>>

NextMain == MainRecord \/ MainTicks \/ MainPlot

\* -------------------------------------------------------------------- app
AppRecord ==
    /\ entry = "app" /\ pc = "loop" /\ consumed < Len(df)
    /\ LET r == app_row(df[consumed + 1])
       IN  IF r.status = "raised"
           THEN pc' = "error" /\ shown' = "error" /\ UNCHANGED <<fig, consumed>>
           ELSE fig' = fig \o r.traces /\ consumed' = consumed + 1 /\ UNCHANGED <<pc, shown>>
    /\ UNCHANGED <<rowVars, planned, boxVars, entry, df, skipped, ticks>>

AppTicks ==
    /\ entry = "app" /\ pc = "loop" /\ consumed = Len(df)
    /\ IF app_ticks_raise
       THEN pc' = "error" /\ shown' = "error" /\ UNCHANGED ticks
       ELSE /\ pc' = "layout"
            /\ ticks' = [bay_tickvals |-> bay_tickvals, bay_ticktext |-> app_bay_ticktext,
                         tier_tickvals |-> tier_tickvals, tier_ticktext |-> tier_ticktext,
                         row_tickvals |-> row_tickvals, row_ticktext |-> row_ticktext]
            /\ UNCHANGED shown
    /\ UNCHANGED <<rowVars, planned, boxVars, entry, df, consumed, fig, skipped>>

\* fig.update_layout and st.plotly_chart
AppPlot ==
    /\ entry = "app" /\ pc = "layout"
    /\ pc' = "done"
    /\ shown' = "chart"
    /\ UNCHANGED <<rowVars, planned, boxVars, entry, df, consumed, fig, skipped, ticks>>

NextApp == AppRecord \/ AppTicks \/ AppPlot

\* ---------------------------------------------------- the specifications
InitScene(entries) ==
    /\ entry \in entries
    /\ df \in Frames
    /\ pc = "loop"
    /\ consumed = 0
    /\ fig = <<>>
    /\ skipped = <<>>
    /\ ticks = NoTicks
    /\ shown = "nothing"
    /\ RowIdle /\ DimsIdle /\ BoxIdle

Init == InitScene({"main", "app"})

Next == NextMain \/ NextApp

\* either entry point on a frame
Spec == Init /\ [][Next]_vars

InitMain == InitScene({"main"})

\* the script's main on a frame
SpecMain == InitMain /\ [][NextMain]_vars

\* ----------------------------------------------------- claims on row_to_y
Returned == row_ret # Pending

\* the call was given a value whose integer conversion is r
RowIs(r) == ~IntRaises(row_arg) /\ IntOf(row_arg) = r

\* C1: row_to_y applied to row code 0 (the int 0 or any value whose integer
\* conversion is 0) returns the not-mappable result None, never a number.
C1_RowZeroNotMappable == (Returned /\ RowIs(0)) => row_ret = None

IsOdd(n) == n % 2 = 1

SignByParity(r) == /\ row_ret.k = "int"
                   /\ IsOdd(r) => row_ret.v > 0
                   /\ ~IsOdd(r) => row_ret.v < 0

\* C3 as stated: for every non-zero integer row code, positive or negative,
\* the result is strictly positive for an odd code and strictly negative for
\* an even one, so that only row code 0 maps to y = 0.
C3_SignForEveryNonZeroRow ==
    (Returned /\ ~IntRaises(row_arg) /\ IntOf(row_arg) # 0) => SignByParity(IntOf(row_arg))

\* C3 amended: for every positive integer row code the result is strictly
\* positive for an odd code and strictly negative for an even one, and
\* row codes 1, 2, 3, 4 give 1, -1, 2, -2.
C3_SignForPositiveRow ==
    (Returned /\ ~IntRaises(row_arg) /\ IntOf(row_arg) > 0) =>
        /\ SignByParity(IntOf(row_arg))
        /\ RowIs(1) => row_ret = PyInt(1)
        /\ RowIs(2) => row_ret = PyInt(-1)
        /\ RowIs(3) => row_ret = PyInt(2)
        /\ RowIs(4) => row_ret = PyInt(-2)

C3_Witness == Returned /\ row_arg = PyStr(<<"0", "4">>) /\ row_ret = PyInt(-2)

\* --------------------------------------------- claims on calculate_dimensions
Overlap(p, q) == p.x_start < q.x_start + q.length /\ q.x_start < p.x_start + p.length

Distance(a, b) == IF a >= b THEN a - b ELSE b - a

\* C6 as stated: the extents [x_start, x_start + length) of two distinct
\* bays of the layout 1, 2, 3, ... never overlap, whatever their parity.
C6_NoTwoBaysOverlap ==
    \A p \in planned : \A q \in planned : p.bay # q.bay => ~Overlap(p, q)

\* C6 amended: the extents of two distinct bays do not overlap when both
\* bays are odd or the bay numbers differ by at least 3, and they overlap
\* otherwise (an even bay and a bay within 2 of it).
C6_OverlapOnlyNearAnEvenBay ==
    \A p \in planned : \A q \in planned :
        p.bay # q.bay =>
            (~Overlap(p, q) <=> \/ IsOdd(p.bay) /\ IsOdd(q.bay)
                                \/ Distance(p.bay, q.bay) >= 3)

C6_Witness == {1, 2, 3, 6} \subseteq {p.bay : p \in planned}

\* ------------------------------------------ claims on create_container_traces
Built == box_ret # <<>>

\* the corner numbered i (0..7) of the box the call was given: the bottom
\* face first, then the top face, each in the same rotational order
Corner(i) ==
    LET a == box_args
        dx == IF i % 4 \in {1, 2} THEN a.length ELSE 0
        dy == IF i % 4 \in {2, 3} THEN a.width ELSE 0
        dz == IF i >= 4 THEN a.height ELSE 0
    IN  <<a.x + dx, a.y + dy, a.z + dz>>

\* the point of the solid mesh that index v refers to
MeshPoint(v) == <<box_ret[1].x[v + 1], box_ret[1].y[v + 1], box_ret[1].z[v + 1]>>

Triangles == 1..Len(box_ret[1].i)

TriangleIndices(t) == {box_ret[1].i[t], box_ret[1].j[t], box_ret[1].k[t]}

\* the six faces of the box: an axis and the low or high value on it
Faces == {<<1, box_args.x>>, <<1, box_args.x + box_args.length>>,
          <<2, box_args.y>>, <<2, box_args.y + box_args.width>>,
          <<3, box_args.z>>, <<3, box_args.z + box_args.height>>}

LiesOn(t, f) == \A v \in TriangleIndices(t) : MeshPoint(v)[f[1]] = f[2]

\* C4: the 12 index triples of the solid mesh form a closed surface over the
\* 6 faces: every triangle has its three vertices on one common face, every
\* face is covered by exactly two triangles, and every triangle edge is
\* shared by exactly two triangles.
C4_SolidMeshClosed ==
    Built =>
        /\ Cardinality(Triangles) = 12
        /\ \A t \in Triangles :
              /\ Cardinality(TriangleIndices(t)) = 3
              /\ \E f \in Faces : LiesOn(t, f)
        /\ \A f \in Faces : Cardinality({t \in Triangles : LiesOn(t, f)}) = 2
        /\ \A t \in Triangles : \A a \in TriangleIndices(t) : \A b \in TriangleIndices(t) :
              a # b => Cardinality({u \in Triangles : {a, b} \subseteq TriangleIndices(u)}) = 2

Wire == box_ret[2]

IsBreak(p) == Wire.x[p] = None

\* the places where the polyline draws a segment: two consecutive points
\* with no path-break between them
SegmentStarts == {p \in 1..(Len(Wire.x) - 1) : ~IsBreak(p) /\ ~IsBreak(p + 1)}

WirePoint(p) == <<Wire.x[p].v, Wire.y[p].v, Wire.z[p].v>>

Segment(p) == {WirePoint(p), WirePoint(p + 1)}

\* the 12 edges of the box by corner numbers: bottom loop, top loop, verticals
BoxEdges == {{0, 1}, {1, 2}, {2, 3}, {3, 0}, {4, 5}, {5, 6}, {6, 7}, {7, 4},
             {0, 4}, {1, 5}, {2, 6}, {3, 7}}

EdgeSegment(e) == {Corner(i) : i \in e}

\* C7: the wireframe polyline draws exactly the 12 box edges, each once: the
\* bottom loop 0-1-2-3-0, the top loop 4-5-6-7-4 and the verticals 0-4, 1-5,
\* 2-6, 3-7, with path-breaks such that no segment joins two corners that are
\* not the ends of a box edge.
C7_WireframeIsTheTwelveEdges ==
    Built =>
        /\ Len(Wire.x) = Len(Wire.y) /\ Len(Wire.y) = Len(Wire.z)
        /\ \A p \in 1..Len(Wire.x) : (Wire.y[p] = None) = IsBreak(p) /\ (Wire.z[p] = None) = IsBreak(p)
        /\ Cardinality(SegmentStarts) = 12
        /\ {Segment(p) : p \in SegmentStarts} = {EdgeSegment(e) : e \in BoxEdges}
        /\ Cardinality({Segment(p) : p \in SegmentStarts}) = 12

C7_Witness ==
    /\ Built
    /\ box_args.length = 2 /\ box_args.y = -1
    /\ \E p \in SegmentStarts : Segment(p) = {Corner(3), Corner(7)}

\* ------------------------------------------------------ claims on the scene
\* a row code that the row mapper of the specification maps: it converts
\* to an integer other than 0
Mappable(row) == ~IntRaises(row) /\ IntOf(row) # 0

Ended == pc \in {"done", "crash", "error"}

\* the scene reached the rendering boundary
Produced == pc = "done" /\ shown \in {"html", "chart"}

\* row p of the frame has its solid mesh in the scene, followed by a wireframe
HasPair(p) == \E q \in 1..(Len(fig) - 1) :
                 /\ fig[q].type = "mesh3d" /\ fig[q].text[1] = df[p].Container_ID
                 /\ fig[q + 1].type = "scatter3d"

\* C2: a record whose row code is 0 contributes no geometry: the number of
\* (solid, wireframe) pairs of the scene is the number of records whose row
\* is mappable, so rows [1, 0] yield exactly one pair.
C2_PairsAreTheMappableRecords ==
    Produced => Len(fig) = 2 * Cardinality({p \in 1..Len(df) : Mappable(df[p].Row)})

\* the frame's only defect is a Row that does not convert to an integer:
\* its Bay and Tier columns are integers
OnlyRowsAreBad == /\ \E p \in 1..Len(df) : IntRaises(df[p].Row)
                  /\ \A p \in 1..Len(df) : df[p].Bay.k = "int" /\ df[p].Tier.k = "int"

\* C5: a record whose row cannot be mapped is skipped without aborting the
\* scene build, in main and in app: every other record with a mappable row
\* still contributes its mesh pair and the scene is still produced.
C5_UnmappableRowDoesNotAbort ==
    (Ended /\ OnlyRowsAreBad) =>
        /\ Produced
        /\ \A p \in 1..Len(df) : Mappable(df[p].Row) => HasPair(p)

\* the label of a bay: two digits, zero-padded
TwoDigit(b) == IF b < 10 THEN <<"0", DigitChars[b + 1]>> ELSE IntText(b)

\* the distinct even bays of the whole frame
EvenBaysOfInput == {b \in {IntOf(df[p].Bay) : p \in 1..Len(df)} : b % 2 = 0}

\* C8: the bay ticks are derived from the Bay column of all records, whatever
\* their rows: the distinct even bays of the input, ascending, each at
\* position (bay - 2) / 2 with a two-digit zero-padded label.
C8_BayTicksFromEveryRecord ==
    (Ended /\ \A p \in 1..Len(df) : ~IntRaises(df[p].Bay) /\ ~IntRaises(df[p].Tier)) =>
        /\ Produced
        /\ Len(ticks.bay_tickvals) = Cardinality(EvenBaysOfInput)
        /\ Len(ticks.bay_ticktext) = Cardinality(EvenBaysOfInput)
        /\ \A q \in 1..Len(ticks.bay_tickvals) :
              \E b \in EvenBaysOfInput : /\ 2 * ticks.bay_tickvals[q] = b - 2
                                         /\ ticks.bay_ticktext[q] = TwoDigit(b)
        /\ \A q \in 1..(Len(ticks.bay_tickvals) - 1) :
              ticks.bay_tickvals[q] < ticks.bay_tickvals[q + 1]

\* main skips row c: its Row, Bay or Tier does not convert to an integer
Skips(c) == IntRaises(c.Row) \/ IntRaises(c.Bay) \/ IntRaises(c.Tier)

\* the corners of the solid mesh at place q of the scene
MeshCorners(q) == {<<fig[q].x[i], fig[q].y[i], fig[q].z[i]>> : i \in 1..Len(fig[q].x)}

\* the box at (x, y, z) of the given length and of width and height 1
BoxCorners(x, y, z, length) ==
    {<<cx, cy, cz>> : cx \in {x, x + length}, cy \in {y, y + 1}, cz \in {z, z + 1}}

\* the placement the specification derives for the record of mesh q
PlacedAsSpecified(q) ==
    LET c == df[fig[q].text[1]]
        bay == IntOf(c.Bay)
        length == IF bay % 2 = 0 THEN 2 ELSE 1
        y == row_to_y(c.Row).v
        z == IntOf(c.Tier) - 1
    IN  \E x \in 0..bay :
           /\ 2 * x = IF bay % 2 = 0 THEN bay - 2 ELSE bay - 1
           /\ Len(fig[q].x) = 8 /\ Len(fig[q].y) = 8 /\ Len(fig[q].z) = 8
           /\ <<fig[q].x[1], fig[q].y[1], fig[q].z[1]>> = <<x, y, z>>
           /\ MeshCorners(q) = BoxCorners(x, y, z, length)
           /\ (bay = 2 /\ IntOf(c.Row) = 1 /\ IntOf(c.Tier) = 82) =>
                 /\ <<x, y, z>> = <<0, 1, 81>>
                 /\ fig[q].x[2] - fig[q].x[1] = 2

\* C9: every record that is not skipped is placed at x = (bay - 2)/2 with
\* length 2.0 for an even bay and x = (bay - 1)/2 with length 1.0 for an odd
\* one, y = the row mapper's result, z = tier - 1, width = height = 1.0;
\* bay 2, row 1, tier 82 gives x = 0, y = 1, z = 81, length = 2.0.
C9_PlacementOfEveryKeptRecord ==
    /\ \A p \in 1..consumed :
          ~Skips(df[p]) => \E q \in 1..Len(fig) : /\ fig[q].type = "mesh3d"
                                                  /\ fig[q].text[1] = df[p].Container_ID
    /\ \A q \in 1..Len(fig) : fig[q].type = "mesh3d" => PlacedAsSpecified(q)

C9_Witness ==
    \E q \in 1..Len(fig) :
        /\ fig[q].type = "mesh3d"
        /\ LET c == df[fig[q].text[1]]
           IN  c.Bay = PyFloat(4) /\ IntOf(c.Row) = 1 /\ IntOf(c.Tier) = 82
        /\ <<fig[q].x[1], fig[q].y[1], fig[q].z[1]>> = <<0, 1, 81>>

RECURSIVE KeptRows(_)
\* the rows among the first m that main does not skip, in input order
KeptRows(m) == IF m = 0 THEN <<>>
               ELSE IF Skips(df[m]) THEN KeptRows(m - 1)
               ELSE Append(KeptRows(m - 1), m)

\* the points of the wireframe at place q of the scene
WirePoints(q) == {<<fig[q].x[i].v, fig[q].y[i].v, fig[q].z[i].v>> :
                    i \in {j \in 1..Len(fig[q].x) : fig[q].x[j] # None}}

\* C10: after any prefix of the records the trace list is whole (solid,
\* wireframe) pairs, one per record of the prefix that was not skipped, in
\* input order; a skipped record adds nothing to it.
C10_WholePairsInInputOrder ==
    LET kept == KeptRows(consumed)
    IN  /\ Len(fig) = 2 * Len(kept)
        /\ \A i \in 1..Len(kept) :
              /\ fig[2 * i - 1].type = "mesh3d"
              /\ fig[2 * i - 1].text[1] = df[kept[i]].Container_ID
              /\ fig[2 * i].type = "scatter3d"
              /\ WirePoints(2 * i) = MeshCorners(2 * i - 1)
        /\ Len(skipped) = consumed - Len(kept)

C10_Witness ==
    /\ Len(df) = 2 /\ consumed = 2
    /\ IntRaises(df[1].Tier) /\ ~Skips(df[2])
    /\ Len(fig) = 2 /\ fig[1].text[1] = df[2].Container_ID

====
